---- MODULE Spec2Model ----
(***************************************************************************)
(* Medium<Float, Spectrum> of include/mitsuba/render/medium.h: the event   *)
(* probability heuristics (analog / maximum / mean), the free-flight       *)
(* sampler, the transmittance/pdf evaluator and the emitter handle.        *)
(*                                                                         *)
(* Real numbers are exact rationals [n, d] in lowest terms with d > 0;     *)
(* +infinity is [n |-> 1, d |-> 0].  A spectrum of k channels is a         *)
(* function 1..k -> rationals.                                             *)
(***************************************************************************)
EXTENDS Integers, Sequences, FiniteSets, TLC

VARIABLES m_medium_sampling_mode, m_sample_emitters, m_is_homogeneous,
          m_has_spectral_extinction, m_phase_function, m_emitter, m_id,
          args, probs, last, attached

vars == << m_medium_sampling_mode, m_sample_emitters, m_is_homogeneous,
           m_has_spectral_extinction, m_phase_function, m_emitter, m_id,
           args, probs, last, attached >>

config == << m_medium_sampling_mode, m_sample_emitters, m_is_homogeneous,
             m_has_spectral_extinction, m_phase_function, m_emitter, m_id >>

-----------------------------------------------------------------------------
(* Bounds *)

\* Largest number of spectral channels of a spectrum.
MaxChannels == 2

\* Number of distinct emitter objects a scene can attach.
MaxEmitters == 2

\* Largest distance (in whole units) the boundary intersector reports.
MaxT == 2

-----------------------------------------------------------------------------
(* Exact arithmetic standing for Float *)

AbsInt(x) == IF x < 0 THEN -x ELSE x

RECURSIVE GCD(_, _)
GCD(a, b) == IF b = 0 THEN a ELSE GCD(b, a % b)

\* The rational n/d (d >= 0) in lowest terms; d = 0 is +infinity.
R(n, d) ==
    IF d = 0 THEN [n |-> 1, d |-> 0]
    ELSE LET g == GCD(AbsInt(n), d) IN [n |-> n \div g, d |-> d \div g]

Zero == R(0, 1)
One == R(1, 1)
Half == R(1, 2)
Infinity == R(1, 0)

IsFinite(a) == a.d > 0

RAdd(a, b) == IF a.d = 0 \/ b.d = 0 THEN Infinity ELSE R(a.n * b.d + b.n * a.d, a.d * b.d)
RMul(a, b) == R(a.n * b.n, a.d * b.d)
RNeg(a) == [n |-> -a.n, d |-> a.d]
RAbs(a) == [n |-> AbsInt(a.n), d |-> a.d]
RLe(a, b) == a.n * b.d <= b.n * a.d
RLt(a, b) == ~RLe(b, a)
RMaximum(a, b) == IF RLt(a, b) THEN b ELSE a
\* a / b as IEEE division does it for b >= 0: x / 0 is +infinity.
RDiv(a, b) == IF b.n = 0 THEN Infinity ELSE IF b.n < 0 THEN R(-(a.n * b.d), a.d * (-b.n)) ELSE R(a.n * b.d, a.d * b.n)
RDivInt(a, k) == R(a.n, a.d * k)

-----------------------------------------------------------------------------
(* Spectra and the dr:: array operations the header uses *)

Size(s) == Cardinality(DOMAIN s)
Full(k, x) == [i \in 1..k |-> x]

dr_abs(s) == [i \in DOMAIN s |-> RAbs(s[i])]
dr_add(a, b) == [i \in DOMAIN a |-> RAdd(a[i], b[i])]
dr_mul(a, b) == [i \in DOMAIN a |-> RMul(a[i], b[i])]
dr_maximum(a, b) == [i \in DOMAIN a |-> RMaximum(a[i], b[i])]

RECURSIVE HSum(_, _)
HSum(s, k) == IF k = 0 THEN Zero ELSE RAdd(HSum(s, k - 1), s[k])

RECURSIVE HMax(_, _)
HMax(s, k) == IF k = 1 THEN s[1] ELSE RMaximum(HMax(s, k - 1), s[k])

\* Horizontal reductions: one scalar out of all channels.
dr_mean(s) == RDivInt(HSum(s, Size(s)), Size(s))
dr_max(s) == HMax(s, Size(s))

-----------------------------------------------------------------------------
(* MediumEventSamplingMode *)

Analogue == 0
Maximum == 1
Mean == 2
MediumEventSamplingMode == {Analogue, Maximum, Mean}

-----------------------------------------------------------------------------
(* The three event-probability heuristics *)

medium_probabilities_analog_noabs(radiance, mi) ==
    [prob_s |-> mi.sigma_t,
     prob_n |-> dr_add(mi.sigma_n,
                       dr_maximum(radiance, Full(Size(radiance), dr_mean(radiance))))]

medium_probabilities_analog_sub(radiance, mi) ==
    [prob_s |-> mi.sigma_t,
     prob_n |-> dr_add(mi.sigma_n,
                       [i \in DOMAIN radiance |->
                           RNeg(RMaximum(radiance[i], dr_mean(dr_abs(radiance))))])]

medium_probabilities_analog(radiance, mi) ==
    [prob_s |-> mi.sigma_t,
     prob_n |-> dr_add(mi.sigma_n,
                       dr_maximum(radiance,
                                  Full(Size(radiance), dr_mean(dr_abs(radiance)))))]

medium_probabilities_max_noclamp(radiance, mi, throughput) ==
    LET k == Size(radiance) IN
    [prob_s |-> Full(k, dr_max(dr_abs(dr_mul(mi.sigma_t, throughput)))),
     prob_n |-> Full(k, RAdd(dr_max(dr_abs(dr_mul(mi.sigma_n, throughput))),
                             dr_max(dr_abs(dr_mul(radiance, throughput)))))]

medium_probabilities_max(radiance, mi, throughput) ==
    LET k == Size(radiance) IN
    [prob_s |-> Full(k, dr_max(dr_abs(dr_mul(mi.sigma_t, throughput)))),
     prob_n |-> Full(k, RAdd(dr_max(dr_abs(dr_mul(mi.sigma_n, throughput))),
                             dr_max(dr_abs(dr_mul(radiance,
                                 dr_maximum(Full(k, One), throughput))))))]

medium_probabilities_mean_halfweight(radiance, mi, throughput) ==
    LET k == Size(radiance) IN
    [prob_s |-> Full(k, dr_mean(dr_abs(dr_mul(mi.sigma_t, throughput)))),
     prob_n |-> Full(k, RAdd(dr_mean(dr_abs(dr_mul(mi.sigma_n, throughput))),
                             dr_mean(dr_abs(dr_mul(radiance,
                                 dr_mul(Full(k, Half), throughput))))))]

medium_probabilities_mean_unitweight(radiance, mi, throughput) ==
    LET k == Size(radiance) IN
    [prob_s |-> Full(k, dr_mean(dr_abs(dr_mul(mi.sigma_t, throughput)))),
     prob_n |-> Full(k, RAdd(dr_mean(dr_abs(dr_mul(mi.sigma_n, throughput))),
                             dr_mean(dr_abs(dr_mul(radiance,
                                 dr_add(Full(k, Half), throughput))))))]

medium_probabilities_mean(radiance, mi, throughput) ==
    LET k == Size(radiance) IN
    [prob_s |-> Full(k, dr_mean(dr_abs(dr_mul(mi.sigma_t, throughput)))),
     prob_n |-> Full(k, RAdd(dr_mean(dr_abs(dr_mul(mi.sigma_n, throughput))),
                             dr_mean(dr_abs(dr_mul(radiance,
                                 dr_add(Full(k, Half),
                                        dr_mul(Full(k, Half), throughput)))))))]

-----------------------------------------------------------------------------
(* Inputs of the heuristics *)

\* Coefficient triples (sigma_s, sigma_n) of one channel; sigma_t is their sum.
CoeffVals == { <<Zero, Zero>>, <<One, Zero>>, <<One, R(2, 1)>> }
RadianceVals == { R(-1, 1), Zero, R(2, 1) }
ThroughputVals == { Half, One, R(2, 1) }

Interaction(c) ==
    [sigma_s |-> [i \in DOMAIN c |-> c[i][1]],
     sigma_n |-> [i \in DOMAIN c |-> c[i][2]],
     sigma_t |-> [i \in DOMAIN c |-> RAdd(c[i][1], c[i][2])]]

ProbInput(r, c, tp) == [radiance |-> r, mi |-> Interaction(c), throughput |-> tp]

ProbInputs(maxk) ==
    UNION { { ProbInput(r, c, tp) :
                r \in [1..k -> RadianceVals],
                c \in [1..k -> CoeffVals],
                tp \in [1..k -> ThroughputVals] } : k \in 1..maxk }

NoArgs == [radiance |-> << >>, mi |-> Interaction(<< >>), throughput |-> << >>]
NoProb == [prob_s |-> << >>, prob_n |-> << >>]
NoProbs == [analog |-> NoProb, max |-> NoProb, mean |-> NoProb]
NoCall == [op |-> "none"]

NULL == 0
Emitters == 1..MaxEmitters
Ids == {"", "medium"}

-----------------------------------------------------------------------------
(* Construction *)

InitConfig ==
    /\ m_medium_sampling_mode \in MediumEventSamplingMode
    /\ m_sample_emitters \in BOOLEAN
    /\ m_is_homogeneous \in BOOLEAN
    /\ m_has_spectral_extinction \in BOOLEAN
    /\ m_phase_function = 1
    /\ m_emitter = NULL
    /\ m_id = ""
    /\ attached = NULL
    /\ last = NoCall

-----------------------------------------------------------------------------
(* The heuristics applied to inputs drawn at the start *)

InitProb ==
    /\ InitConfig
    /\ m_medium_sampling_mode = Analogue
    /\ ~m_sample_emitters /\ ~m_is_homogeneous /\ ~m_has_spectral_extinction
    /\ \E k \in 1..MaxChannels :
        \E r \in [1..k -> RadianceVals], c \in [1..k -> CoeffVals],
           tp \in [1..k -> ThroughputVals] :
            args = ProbInput(r, c, tp)
    /\ probs = NoProbs

CallAnalog ==
    /\ probs.analog = NoProb
    /\ probs' = [probs EXCEPT !.analog = medium_probabilities_analog(args.radiance, args.mi)]
    /\ UNCHANGED << config, args, last, attached >>

CallMax ==
    /\ probs.max = NoProb
    /\ probs' = [probs EXCEPT !.max = medium_probabilities_max(args.radiance, args.mi, args.throughput)]
    /\ UNCHANGED << config, args, last, attached >>

CallMean ==
    /\ probs.mean = NoProb
    /\ probs' = [probs EXCEPT !.mean = medium_probabilities_mean(args.radiance, args.mi, args.throughput)]
    /\ UNCHANGED << config, args, last, attached >>

NextProb == CallAnalog \/ CallMax \/ CallMean

SpecProb == InitProb /\ [][NextProb]_vars

-----------------------------------------------------------------------------
(* Free-flight sampling *)

\* -log(1 - u) for u in [0, 1): the series u + u^2/2 + u^3/3, which is 0 at
\* 0, non-negative and increasing like the logarithm it stands for.
NegLog1m(u) == RAdd(u, RAdd(RDivInt(RMul(u, u), 2), RDivInt(RMul(u, RMul(u, u)), 3)))

\* exp(-x) for x >= 0: 1 / (1 + x + x^2/2), which is 1 at 0, positive and
\* decreasing like the exponential it stands for; exp(-infinity) is 0.
ExpNeg(x) == IF ~IsFinite(x) THEN Zero ELSE RDiv(One, RAdd(One, RAdd(x, RDivInt(RMul(x, x), 2))))

\* The strategy methods every medium kind implements; env is what this
\* medium's implementation answers for the call at hand.
intersect_aabb(env, ray) == env.aabb
get_majorant(env, active) == env.majorant
get_scattering_coefficients(env, active) == env.coeffs

NoInteraction(k, t, divided) ==
    [t |-> t, active |-> FALSE, divided |-> divided,
     sigma_s |-> Full(k, Zero), sigma_n |-> Full(k, Zero), sigma_t |-> Full(k, Zero)]

sample_interaction_noguard(env, ray, sample, channel, active) ==
    LET k == Size(get_majorant(env, active))
        its == intersect_aabb(env, ray)
    IN  IF ~active \/ ~its.valid THEN NoInteraction(k, Infinity, FALSE)
        ELSE LET m == get_majorant(env, active)[channel]
                 t == RAdd(its.mint, RDiv(NegLog1m(sample), m))
                 c == get_scattering_coefficients(env, TRUE)
             IN  IF RLt(its.maxt, t) THEN NoInteraction(k, its.maxt, TRUE)
                 ELSE [t |-> t, active |-> TRUE, divided |-> TRUE,
                       sigma_s |-> c.sigma_s, sigma_n |-> c.sigma_n, sigma_t |-> c.sigma_t]

sample_interaction_overshoot(env, ray, sample, channel, active) ==
    LET k == Size(get_majorant(env, active))
        its == intersect_aabb(env, ray)
    IN  IF ~active \/ ~its.valid THEN NoInteraction(k, Infinity, FALSE)
        ELSE LET m == get_majorant(env, active)[channel] IN
             IF RLe(m, Zero)
             THEN NoInteraction(k, IF env.boundary THEN its.maxt ELSE Infinity, FALSE)
             ELSE LET t == RAdd(its.mint, RDiv(NegLog1m(sample), m))
                      c == get_scattering_coefficients(env, TRUE)
                  IN  IF RLt(its.maxt, t) THEN NoInteraction(k, t, TRUE)
                      ELSE [t |-> t, active |-> TRUE, divided |-> TRUE,
                            sigma_s |-> c.sigma_s, sigma_n |-> c.sigma_n,
                            sigma_t |-> c.sigma_t]

\* The returned MediumInteraction; "divided" records whether the division by
\* the majorant was carried out.
sample_interaction(env, ray, sample, channel, active) ==
    LET k == Size(get_majorant(env, active))
        its == intersect_aabb(env, ray)
    IN  IF ~active \/ ~its.valid THEN NoInteraction(k, Infinity, FALSE)
        ELSE LET m == get_majorant(env, active)[channel] IN
             IF RLe(m, Zero)
             THEN NoInteraction(k, IF env.boundary THEN its.maxt ELSE Infinity, FALSE)
             ELSE LET t == RAdd(its.mint, RDiv(NegLog1m(sample), m))
                      c == get_scattering_coefficients(env, TRUE)
                  IN  IF RLt(its.maxt, t) THEN NoInteraction(k, its.maxt, TRUE)
                      ELSE [t |-> t, active |-> TRUE, divided |-> TRUE,
                            sigma_s |-> c.sigma_s, sigma_n |-> c.sigma_n,
                            sigma_t |-> c.sigma_t]

MajorantVals == { R(-1, 1), Zero, Half, R(2, 1) }
Samples == { Zero, Half, R(9, 10) }

Supports(maxt) ==
    { [valid |-> FALSE, mint |-> Zero, maxt |-> Infinity] }
        \cup { [valid |-> TRUE, mint |-> R(a, 1), maxt |-> R(b, 1)] :
                 a \in 0..maxt, b \in 1..maxt }

SampleInput(s, mj, c, b, u, ch, a) ==
    [env |-> [aabb |-> s, majorant |-> mj,
              coeffs |-> Interaction(Full(Size(mj), c)), boundary |-> b],
     ray |-> "ray", sample |-> u, channel |-> ch, active |-> a]

HitOrMiss(maxt) == { h \in Supports(maxt) : RLt(h.mint, h.maxt) }

SampleInputs(maxk, maxt) ==
    UNION { { SampleInput(s, mj, c, b, u, ch, a) :
                s \in HitOrMiss(maxt), mj \in [1..k -> MajorantVals],
                c \in CoeffVals, b \in BOOLEAN, u \in Samples,
                ch \in 1..k, a \in BOOLEAN } : k \in 1..maxk }

SampleInteraction(In) ==
    /\ \E x \in In :
        last' = [op |-> "sample_interaction", in |-> x,
                 out |-> sample_interaction(x.env, x.ray, x.sample, x.channel, x.active)]
    /\ UNCHANGED << config, args, probs, attached >>

-----------------------------------------------------------------------------
(* Transmittance and pdf *)

transmittance_eval_pdf_swapped(env, mi, si, active) ==
    LET maj == get_majorant(env, active) IN
    IF RLe(si.t, mi.t)
    THEN LET tr == [i \in DOMAIN maj |-> ExpNeg(RMul(maj[i], mi.t))]
         IN  [transmittance |-> tr, pdf |-> dr_mul(mi.sigma_t, tr)]
    ELSE LET tr == [i \in DOMAIN maj |-> ExpNeg(RMul(maj[i], si.t))]
         IN  [transmittance |-> tr, pdf |-> tr]

transmittance_eval_pdf(env, mi, si, active) ==
    LET maj == get_majorant(env, active) IN
    IF RLe(mi.t, si.t)
    THEN LET tr == [i \in DOMAIN maj |-> ExpNeg(RMul(maj[i], mi.t))]
         IN  [transmittance |-> tr, pdf |-> dr_mul(mi.sigma_t, tr)]
    ELSE LET tr == [i \in DOMAIN maj |-> ExpNeg(RMul(maj[i], si.t))]
         IN  [transmittance |-> tr, pdf |-> tr]

ExtinctionVals == { Zero, Half, R(2, 1) }
Distances(maxt) == { R(a, 1) : a \in 0..maxt } \cup { Infinity }

\* Interactions and surface hits of which at least one is at a finite distance.
TransInput(mj, st, d, a) ==
    [env |-> [majorant |-> mj], mi |-> [t |-> d[1], sigma_t |-> st],
     si |-> [t |-> d[2]], active |-> a]

DistancePairs(maxt) ==
    { e \in Distances(maxt) \X Distances(maxt) : IsFinite(e[1]) \/ IsFinite(e[2]) }

TransInputs(maxk, maxt) ==
    UNION { { TransInput(mj, st, d, a) :
                mj \in [1..k -> ExtinctionVals], st \in [1..k -> ExtinctionVals],
                d \in DistancePairs(maxt), a \in BOOLEAN } : k \in 1..maxk }

TransmittanceEvalPdf(In) ==
    /\ \E x \in In :
        last' = [op |-> "transmittance_eval_pdf", in |-> x,
                 out |-> transmittance_eval_pdf(x.env, x.mi, x.si, x.active)]
    /\ UNCHANGED << config, args, probs, attached >>

-----------------------------------------------------------------------------
(* Event probabilities and emission, by the medium's mode and emitter *)

get_interaction_probabilities(mode, radiance, mi, throughput) ==
    IF mode = Analogue THEN medium_probabilities_analog(radiance, mi)
    ELSE IF mode = Maximum THEN medium_probabilities_max(radiance, mi, throughput)
    ELSE medium_probabilities_mean(radiance, mi, throughput)

GetInteractionProbabilities_assign(In) ==
    /\ \E x \in In :
        last' = [op |-> "get_interaction_probabilities", in |-> x,
                 out |-> get_interaction_probabilities(Analogue, x.radiance, x.mi, x.throughput)]
    /\ m_medium_sampling_mode' = Analogue
    /\ UNCHANGED << m_sample_emitters, m_is_homogeneous, m_has_spectral_extinction,
                    m_phase_function, m_emitter, m_id, args, probs, attached >>

GetInteractionProbabilities(In) ==
    /\ \E x \in In :
        last' = [op |-> "get_interaction_probabilities", in |-> x,
                 out |-> get_interaction_probabilities(m_medium_sampling_mode,
                                                       x.radiance, x.mi, x.throughput)]
    /\ UNCHANGED << config, args, probs, attached >>

get_radiance(env, emitter, mi, active) ==
    IF ~active \/ emitter = NULL THEN Full(Size(env.radiance), Zero) ELSE env.radiance

RadianceInputs ==
    { [env |-> [radiance |-> << r >>], mi |-> "mi", active |-> a] :
        r \in { Zero, R(2, 1) }, a \in BOOLEAN }

GetRadiance ==
    /\ \E x \in RadianceInputs :
        last' = [op |-> "get_radiance", in |-> x,
                 out |-> get_radiance(x.env, m_emitter, x.mi, x.active)]
    /\ UNCHANGED << config, args, probs, attached >>

-----------------------------------------------------------------------------
(* Accessors and setters *)

phase_function == m_phase_function
emitter == m_emitter
use_emitter_sampling == m_sample_emitters
is_homogeneous == m_is_homogeneous
is_emitter_inverted == m_emitter = NULL
is_emitter == m_emitter # NULL
has_spectral_extinction == m_has_spectral_extinction
id == m_id

\* The read-only queries, answered together.
Queries ==
    /\ last' = [op |-> "queries", in |-> "none",
                out |-> [phase_function |-> phase_function, emitter |-> emitter,
                         use_emitter_sampling |-> use_emitter_sampling,
                         is_homogeneous |-> is_homogeneous, is_emitter |-> is_emitter,
                         has_spectral_extinction |-> has_spectral_extinction,
                         id |-> id]]
    /\ UNCHANGED << config, args, probs, attached >>

\* attached remembers the argument of the most recent call.
set_emitter(e) ==
    /\ m_emitter' = e
    /\ attached' = e
    /\ UNCHANGED << m_medium_sampling_mode, m_sample_emitters, m_is_homogeneous,
                    m_has_spectral_extinction, m_phase_function, m_id,
                    args, probs, last >>

set_id(new_id) ==
    /\ m_id' = new_id
    /\ UNCHANGED << m_medium_sampling_mode, m_sample_emitters, m_is_homogeneous,
                    m_has_spectral_extinction, m_phase_function, m_emitter,
                    args, probs, last, attached >>

SetEmitter == \E e \in Emitters \cup {NULL} : set_emitter(e)
SetId == \E i \in Ids : set_id(i)

-----------------------------------------------------------------------------
(* Specifications *)

\* One call of sample_interaction on arguments drawn at the start.
InitSample ==
    /\ InitConfig
    /\ m_medium_sampling_mode = Analogue
    /\ ~m_sample_emitters /\ ~m_is_homogeneous /\ ~m_has_spectral_extinction
    /\ \E k \in 1..MaxChannels :
        \E s \in HitOrMiss(MaxT), mj \in [1..k -> MajorantVals], c \in CoeffVals,
           b \in BOOLEAN, u \in Samples, ch \in 1..k, a \in BOOLEAN :
            args = SampleInput(s, mj, c, b, u, ch, a)
    /\ probs = NoProbs

NextSample == SampleInteraction({args})

SpecSample == InitSample /\ [][NextSample]_vars

\* One call of transmittance_eval_pdf on arguments drawn at the start.
InitTrans ==
    /\ InitConfig
    /\ m_medium_sampling_mode = Analogue
    /\ ~m_sample_emitters /\ ~m_is_homogeneous /\ ~m_has_spectral_extinction
    /\ \E k \in 1..MaxChannels :
        \E mj \in [1..k -> ExtinctionVals], st \in [1..k -> ExtinctionVals],
           d \in DistancePairs(MaxT), a \in BOOLEAN :
            args = TransInput(mj, st, d, a)
    /\ probs = NoProbs

NextTrans == TransmittanceEvalPdf({args})

SpecTrans == InitTrans /\ [][NextTrans]_vars

\* The life of one medium: any call in any order, the rendering calls on a
\* few single-channel arguments.
FewSampleInputs ==
    { x \in SampleInputs(1, 1) :
        x.sample = Half /\ x.env.boundary /\ x.env.coeffs.sigma_n[1] = R(2, 1) }
FewTransInputs ==
    { x \in TransInputs(1, 1) :
        x.env.majorant[1] = Half /\ x.mi.sigma_t[1] = Half /\ x.active }
FewProbInputs ==
    { x \in ProbInputs(1) : x.mi.sigma_n[1] = R(2, 1) /\ x.radiance[1] # Zero }

Init ==
    /\ InitConfig
    /\ args = NoArgs
    /\ probs = NoProbs

Next ==
    \/ SampleInteraction(FewSampleInputs)
    \/ TransmittanceEvalPdf(FewTransInputs)
    \/ GetInteractionProbabilities(FewProbInputs)
    \/ GetRadiance
    \/ Queries
    \/ SetEmitter
    \/ SetId

Spec == Init /\ [][Next]_vars

-----------------------------------------------------------------------------
(* Properties of the heuristics *)

RECURSIVE SumOver(_, _)
SumOver(f, S) ==
    IF S = {} THEN Zero
    ELSE LET i == CHOOSE j \in S : TRUE IN RAdd(f[i], SumOver(f, S \ {i}))

IsMaxOf(x, S) == x \in S /\ \A y \in S : RLe(y, x)
IsMeanOf(x, f) == RMul(x, R(Size(f), 1)) = SumOver(f, DOMAIN f)
Channels == DOMAIN args.radiance
NonNegative(s) == \A i \in DOMAIN s : IsFinite(s[i]) /\ s[i].n >= 0
Weighted(a, b) == { RAbs(RMul(a[i], b[i])) : i \in DOMAIN a }
AbsWeighted(a, b) == [i \in DOMAIN a |-> RAbs(RMul(a[i], b[i]))]

\* C1: in Analog mode, on every channel i, prob_s[i] is sigma_t[i] and
\* prob_n[i] is sigma_n[i] plus the larger of radiance[i] and the mean over
\* the channels of |radiance|; throughput plays no part.
C1_AnalogPerChannel ==
    probs.analog # NoProb =>
        LET magnitude == [i \in Channels |-> RAbs(args.radiance[i])]
            m == RDivInt(SumOver(magnitude, Channels), Size(magnitude))
        IN  \A i \in Channels :
                /\ probs.analog.prob_s[i] = args.mi.sigma_t[i]
                /\ probs.analog.prob_n[i] =
                       RAdd(args.mi.sigma_n[i],
                            IF RLe(m, args.radiance[i]) THEN args.radiance[i] ELSE m)

\* Analog was applied to a two-channel radiance with a negative channel and a
\* channel above the mean of the magnitudes.
C1_Witness ==
    /\ probs.analog # NoProb
    /\ Size(args.radiance) = 2
    /\ args.radiance[1] = R(-1, 1)
    /\ args.radiance[2] = R(2, 1)
    /\ args.mi.sigma_n[1] = R(2, 1)
    /\ probs.analog.prob_n[1] = R(7, 2)
    /\ probs.analog.prob_n[2] = R(2, 1)

\* C2: in Maximum mode prob_s and prob_n are one scalar each, shared by all
\* channels: prob_s is the largest |sigma_t * throughput| over the channels and
\* prob_n is the largest |sigma_n * throughput| plus the largest
\* |radiance * max(1, throughput)|, the clamp taken per channel.
C2_MaximumScalar ==
    probs.max # NoProb =>
        LET clamp == [i \in Channels |->
                         IF RLe(args.throughput[i], One) THEN One ELSE args.throughput[i]]
        IN  /\ \A i \in Channels :
                /\ probs.max.prob_s[i] = probs.max.prob_s[1]
                /\ probs.max.prob_n[i] = probs.max.prob_n[1]
            /\ IsMaxOf(probs.max.prob_s[1], Weighted(args.mi.sigma_t, args.throughput))
            /\ \E a \in Weighted(args.mi.sigma_n, args.throughput),
                  b \in Weighted(args.radiance, clamp) :
                /\ IsMaxOf(a, Weighted(args.mi.sigma_n, args.throughput))
                /\ IsMaxOf(b, Weighted(args.radiance, clamp))
                /\ probs.max.prob_n[1] = RAdd(a, b)

\* Maximum was applied where the brightest channel has throughput below one,
\* so the clamp decides the radiance term.
C2_Witness ==
    /\ probs.max # NoProb
    /\ Size(args.radiance) = 2
    /\ args.throughput = << Half, R(2, 1) >>
    /\ args.radiance = << R(2, 1), Zero >>
    /\ args.mi.sigma_n = << Zero, R(2, 1) >>
    /\ probs.max.prob_n = << R(6, 1), R(6, 1) >>

\* C3: Mean mode has the structure of Maximum mode with the arithmetic mean as
\* the reduction and 0.5 + 0.5*throughput as the radiance weight.
C3_MeanScalar ==
    probs.mean # NoProb =>
        LET w == [i \in Channels |-> RAdd(Half, RMul(Half, args.throughput[i]))]
        IN  /\ \A i \in Channels :
                /\ probs.mean.prob_s[i] = probs.mean.prob_s[1]
                /\ probs.mean.prob_n[i] = probs.mean.prob_n[1]
            /\ IsMeanOf(probs.mean.prob_s[1], AbsWeighted(args.mi.sigma_t, args.throughput))
            /\ RMul(probs.mean.prob_n[1], R(Size(args.radiance), 1)) =
                   RAdd(SumOver(AbsWeighted(args.mi.sigma_n, args.throughput), Channels),
                        SumOver(AbsWeighted(args.radiance, w), Channels))

\* Mean was applied to two channels with different throughput and radiance.
C3_Witness ==
    /\ probs.mean # NoProb
    /\ Size(args.radiance) = 2
    /\ args.throughput = << Half, R(2, 1) >>
    /\ args.radiance = << R(2, 1), R(-1, 1) >>
    /\ args.mi.sigma_n = << Zero, R(2, 1) >>
    /\ probs.mean.prob_n = << R(7, 2), R(7, 2) >>

AllApplied == probs.analog # NoProb /\ probs.max # NoProb /\ probs.mean # NoProb

\* C4 (as stated): on every single-channel input the three heuristics return
\* the same prob_s and the same prob_n.
C4_SingleChannelIdentical ==
    (AllApplied /\ Size(args.radiance) = 1) =>
        (probs.analog = probs.max /\ probs.max = probs.mean)

\* C4 (amended): on a single-channel input whose throughput is 1 (and whose
\* coefficients are non-negative) the three heuristics return the same prob_s
\* and the same prob_n.
C4_SingleChannelUnitThroughput ==
    (AllApplied /\ Size(args.radiance) = 1 /\ args.throughput[1] = One
        /\ NonNegative(args.mi.sigma_t) /\ NonNegative(args.mi.sigma_n)) =>
        (probs.analog = probs.max /\ probs.max = probs.mean)

\* All three were applied to one channel of throughput 1 with non-zero
\* coefficients and a negative radiance.
C4_Witness ==
    /\ AllApplied
    /\ Size(args.radiance) = 1
    /\ args.throughput[1] = One
    /\ args.radiance[1] = R(-1, 1)
    /\ args.mi.sigma_n[1] = R(2, 1)
    /\ probs.mean.prob_n[1] = R(3, 1)
    /\ probs.mean.prob_s[1] = R(3, 1)

\* C5: for non-negative finite sigma_t, sigma_n, radiance and throughput, each
\* of the three modes returns a finite prob_s >= 0 and prob_n >= 0 on every
\* channel.
C5_NonNegative ==
    (/\ NonNegative(args.mi.sigma_t) /\ NonNegative(args.mi.sigma_n)
     /\ NonNegative(args.radiance) /\ NonNegative(args.throughput)) =>
        \A p \in {probs.analog, probs.max, probs.mean} :
            NonNegative(p.prob_s) /\ NonNegative(p.prob_n)

\* All three were applied to a non-negative two-channel input with a positive
\* radiance and a zero null coefficient.
C5_Witness ==
    /\ AllApplied
    /\ Size(args.radiance) = 2
    /\ NonNegative(args.radiance) /\ NonNegative(args.throughput)
    /\ args.radiance[1] = R(2, 1)
    /\ args.mi.sigma_n[1] = Zero
    /\ probs.analog.prob_n[1] = R(2, 1)

-----------------------------------------------------------------------------
(* Properties of the medium, the sampler and the evaluator *)

Sampled == last.op = "sample_interaction"
Pivot == last.in.env.majorant[last.in.channel]
Support == last.in.env.aabb
FreeFlight == RAdd(Support.mint, RDiv(NegLog1m(last.in.sample), Pivot))

\* C6: the sampling mode and the homogeneity, spectral-extinction and
\* emitter-sampling flags keep their construction-time values under every
\* operation, set_emitter and set_id included; sample_interaction,
\* transmittance_eval_pdf, get_interaction_probabilities, get_radiance and the
\* read-only queries (the steps that record a call) change no member at all.
C6_ModeFixed ==
    [][/\ m_medium_sampling_mode' = m_medium_sampling_mode
       /\ m_is_homogeneous' = m_is_homogeneous
       /\ m_has_spectral_extinction' = m_has_spectral_extinction
       /\ m_sample_emitters' = m_sample_emitters
       /\ (last' # last => config' = config)]_vars

\* A Mean-mode medium after set_emitter, set_id and a recorded
\* get_interaction_probabilities call.
C6_Witness ==
    /\ m_medium_sampling_mode = Mean
    /\ m_emitter # NULL
    /\ m_id = "medium"
    /\ last.op = "get_interaction_probabilities"
    /\ last.in.throughput[1] = R(2, 1)
    /\ last.out.prob_s[1] = R(6, 1)

\* C7: when the majorant of the sampling channel is zero or negative,
\* sample_interaction reports no interaction and does not divide by it,
\* whatever the ray and the sample.
C7_ZeroMajorantNoInteraction ==
    (Sampled /\ RLe(Pivot, Zero)) => (~last.out.active /\ ~last.out.divided)

\* A lane active on entry whose ray overlaps the support met a zero majorant.
C7_Witness ==
    /\ Sampled
    /\ last.in.active /\ Support.valid
    /\ Pivot = Zero
    /\ last.in.sample = Half
    /\ ~last.out.active

Evaluated == last.op = "transmittance_eval_pdf"

\* C9: transmittance_eval_pdf branches on mi.t against si.t: when mi.t > si.t
\* transmittance and pdf are equal on every channel, both the survival value
\* to si.t; when mi.t <= si.t the pdf is sigma_t times the transmittance on
\* every channel.
C9_BranchByDistance ==
    Evaluated =>
        \A i \in DOMAIN last.out.pdf :
            IF RLt(last.in.si.t, last.in.mi.t)
            THEN /\ last.out.pdf[i] = last.out.transmittance[i]
                 /\ last.out.pdf[i] = ExpNeg(RMul(last.in.env.majorant[i], last.in.si.t))
            ELSE last.out.pdf[i] = RMul(last.in.mi.sigma_t[i], last.out.transmittance[i])

\* The ray left a medium of majorant 1/2 and extinction 2 before the sampled
\* event: transmittance and pdf are both the survival value to si.t = 2.
C9_Witness ==
    /\ Evaluated
    /\ last.in.mi.t = Infinity /\ last.in.si.t = R(2, 1)
    /\ last.in.env.majorant[1] = Half /\ last.in.mi.sigma_t[1] = R(2, 1)
    /\ last.out.pdf[1] = R(2, 5)
    /\ last.out.transmittance[1] = R(2, 5)

====
